---------------------------- MODULE Spec2Model ----------------------------
(***************************************************************************)
(* A model of app.py, the e-commerce sales analytics dashboard.            *)
(*                                                                         *)
(* One run of the script is: load the table (the uploaded CSV, with its    *)
(* Date column coerced by pd.to_datetime(errors="coerce"), or the built-in *)
(* 9-row sample), then render the one page the sidebar radio selects.      *)
(* The widgets (file uploader, page radio, the two sliders) are inputs of  *)
(* the run and are fixed by Init; LoadData and the four page actions are   *)
(* the steps of the run.                                                   *)
(*                                                                         *)
(* Conventions.                                                            *)
(*  - A timestamp is an integer number of clock slots since the start of   *)
(*    day 0; day 1 is 2023-01-01. NaT (pandas' missing-date marker) is -1. *)
(*  - A missing (NaN) cell of an integer column is NA = -1.                *)
(*  - A pandas Series with a sortable index is a sequence of               *)
(*    [index, value] records in ascending index order (groupby sorts).     *)
(*  - A support is kept as the count of orders (the number of orders N is  *)
(*    the number of rows of basket); confidence and lift are kept as exact *)
(*    fractions <<numerator, denominator>>. Floating-point rounding of     *)
(*    these quotients is not modelled.                                     *)
(*  - Uploaded tables have at least one row and no missing CustomerID,     *)
(*    Amount or Category cell.                                             *)
(***************************************************************************)
EXTENDS Integers, Sequences, FiniteSets, TLC

VARIABLES
  uploaded_file,    \* the file uploader's value: [present, cols, rows]
  page,             \* the sidebar radio's value
  min_support,      \* slider, in hundredths (5 is 0.05)
  min_threshold,    \* slider, in tenths (10 is 1.0)
  pc,               \* "load", "page" or "done"
  df,               \* the loaded table: [cols, rows]
  shown,            \* names of the result elements rendered by this run
  alerts,           \* st.warning / st.error messages shown by this run
  exc,              \* the uncaught exception that ended the run, or NoExc
  total_sales, unique_customers, daily_sales, category_sales,
  snapshot_date, rfm,
  basket, frequent_items, rules, G,
  ts, forecast_series

widgets == <<uploaded_file, page, min_support, min_threshold>>
overview_out == <<total_sales, unique_customers, daily_sales, category_sales>>
rfm_out == <<snapshot_date, rfm>>
basket_out == <<basket, frequent_items, rules, G>>
forecast_out == <<ts, forecast_series>>
vars == <<widgets, pc, df, shown, alerts, exc, overview_out, rfm_out,
          basket_out, forecast_out>>

-----------------------------------------------------------------------------
(* Bounds of the model.                                                    *)

\* rows of an uploaded table, per analysis
MaxRowsRFM == 2
MaxRowsBasket == 4
MaxRowsDaily == 3
\* uploaded dates lie on days 1..MaxDay
MaxDay == 2
\* rows deleted from the sample to make an uploaded sales history
MaxDeleted == 2

\* the times of day an uploaded timestamp can carry: the clock's resolution
TimeSlots == <<"00:00", "12:00">>
SlotsPerDay == Len(TimeSlots)

NaT == -1
NA == -1
NaN == -1
NoExc == "none"

Columns == {"OrderID", "Date", "CustomerID", "Amount", "Category"}
\* the categories in sorted (column) order, as unstack() lays them out
CategoryOrder == <<"Electronics", "Fashion", "Home">>
Categories == {CategoryOrder[i] : i \in 1..Len(CategoryOrder)}
Rank(c) == CHOOSE i \in 1..Len(CategoryOrder) : CategoryOrder[i] = c

PageOverview == "Data Overview"
PageRFM == "RFM Segmentation"
PageBasket == "Market Basket Analysis"
PageForecast == "Sales Forecasting"
Pages == {PageOverview, PageRFM, PageBasket, PageForecast}

WarnRFM == "Your dataset needs a 'Date' column for RFM."
WarnNoItemsets == "No frequent itemsets found. Try lowering Minimum Support."
WarnNoRules == "No association rules found. Try lowering the Lift Threshold."
WarnBasket == "Your dataset needs both 'OrderID' and 'Category' columns for Market Basket Analysis."
WarnForecast == "Your dataset needs a 'Date' column for Forecasting."
ErrForecast == "Error in forecasting"

-----------------------------------------------------------------------------
(* Generic helpers.                                                        *)

Range(s) == {s[i] : i \in DOMAIN s}

RECURSIVE SumSet(_, _)
\* the sum of f[x] over the finite set S
SumSet(S, f) ==
  IF S = {} THEN 0
  ELSE LET x == CHOOSE y \in S : TRUE IN f[x] + SumSet(S \ {x}, f)

SetMax(S) == CHOOSE x \in S : \A y \in S : y <= x
SetMin(S) == CHOOSE x \in S : \A y \in S : x <= y

RECURSIVE SortedSeq(_)
\* the integers of S in ascending order
SortedSeq(S) ==
  IF S = {} THEN <<>>
  ELSE LET m == SetMin(S) IN <<m>> \o SortedSeq(S \ {m})

Idx(t) == DOMAIN t.rows

\* Series.sum() / count() over the rows I of table t
AmountSum(t, I) == SumSet(I, [i \in I |-> t.rows[i].Amount])
CountNotNull(t, I, col) == Cardinality({i \in I : t.rows[i][col] # NA})

\* Series.max() of a datetime column over the rows I: NaT is skipped, and
\* the maximum of no value at all is NaT
DateMax(t, I) ==
  LET present == {t.rows[i].Date : i \in I} \ {NaT}
  IN IF present = {} THEN NaT ELSE SetMax(present)

\* Timestamp + timedelta(days=n); NaT stays NaT
AddDays(d, n) == IF d = NaT THEN NaT ELSE d + n * SlotsPerDay

\* (a - b).days: whole days of the difference, NaN when either side is NaT
DaysBetween(a, b) ==
  IF a = NaT \/ b = NaT THEN NaN ELSE (a - b) \div SlotsPerDay

HasDateMutant(t) == TRUE

\* "Date" in df.columns
HasDate(t) == "Date" \in t.cols

\* the calendar day a timestamp falls on
DayOf(d) == d \div SlotsPerDay

\* df.groupby(col)["Amount"].sum() for an integer-valued key column:
\* one entry per distinct non-null key, keys ascending
GroupKeys(t, col) == {t.rows[i][col] : i \in Idx(t)} \ {NA}
GroupSumByInt(t, col) ==
  LET keys == SortedSeq(GroupKeys(t, col))
  IN [k \in DOMAIN keys |->
        [index |-> keys[k],
         value |-> AmountSum(t, {i \in Idx(t) : t.rows[i][col] = keys[k]})]]

-----------------------------------------------------------------------------
(* Loading the table.                                                      *)

SampleRow(o, d, c, a, k) ==
  [OrderID |-> o, Date |-> d, CustomerID |-> c, Amount |-> a, Category |-> k]

\* a raw Date cell of a CSV: a calendar day with a time of day, or text that
\* is no date
DateCell(day, slot) == [ok |-> TRUE, day |-> day, slot |-> slot]
BadDateCell == [ok |-> FALSE, day |-> 0, slot |-> 0]

\* the literal CSV of the built-in sample
SampleData ==
  << SampleRow(1, DateCell(1, 0), "C001", 200, "Electronics"),
     SampleRow(2, DateCell(2, 0), "C002", 150, "Fashion"),
     SampleRow(3, DateCell(3, 0), "C003", 300, "Home"),
     SampleRow(4, DateCell(4, 0), "C002", 250, "Electronics"),
     SampleRow(5, DateCell(5, 0), "C001", 100, "Fashion"),
     SampleRow(6, DateCell(6, 0), "C004", 400, "Electronics"),
     SampleRow(7, DateCell(7, 0), "C003", 200, "Fashion"),
     SampleRow(8, DateCell(8, 0), "C001", 350, "Home"),
     SampleRow(9, DateCell(9, 0), "C002", 220, "Electronics") >>

\* pd.to_datetime(cell, errors="coerce")
to_datetime(cell) ==
  IF cell.ok THEN cell.day * SlotsPerDay + cell.slot ELSE NaT

ParseDates(rows) ==
  [i \in DOMAIN rows |-> [rows[i] EXCEPT !.Date = to_datetime(rows[i].Date)]]

NoFile == [present |-> FALSE, cols |-> {}, rows |-> <<>>]
File(cols, rows) == [present |-> TRUE, cols |-> cols, rows |-> rows]

\* a column the table lacks holds no data: its cells are blanked
BlankRow == [OrderID |-> NA, Date |-> NaT, CustomerID |-> "", Amount |-> 0,
             Category |-> ""]
Project(rows, cols) ==
  [i \in DOMAIN rows |->
     [c \in Columns |-> IF c \in cols THEN rows[i][c] ELSE BlankRow[c]]]

\* lines 14-33
ReadTable(f) ==
  IF f.present
  THEN [cols |-> f.cols,
        rows |-> Project(IF "Date" \in f.cols THEN ParseDates(f.rows)
                         ELSE f.rows, f.cols)]
  ELSE [cols |-> Columns, rows |-> ParseDates(SampleData)]

EmptyMap == [x \in {} |-> 0]

LoadData ==
  /\ pc = "load"
  /\ df' = ReadTable(uploaded_file)
  /\ pc' = "page"
  /\ UNCHANGED <<widgets, shown, alerts, exc, overview_out, rfm_out,
                 basket_out, forecast_out>>

-----------------------------------------------------------------------------
(* Page 1: Data Overview (lines 49-69).                                    *)

Customers(t) == {t.rows[i].CustomerID : i \in Idx(t)}

\* df.groupby("Category")["Amount"].sum()
CategorySales(t) ==
  LET cats == {t.rows[i].Category : i \in Idx(t)}
  IN [c \in cats |-> AmountSum(t, {i \in Idx(t) : t.rows[i].Category = c})]

\* df.groupby("Date")["Amount"].sum()
DailySales(t) == GroupSumByInt(t, "Date")

DataOverview ==
  /\ pc = "page"
  /\ page = PageOverview
  /\ pc' = "done"
  /\ IF "Amount" \notin df.cols
     THEN \* df['Amount'] raises KeyError at line 56
          /\ exc' = "KeyError: 'Amount'"
          /\ shown' = {"head"}
          /\ UNCHANGED overview_out
     ELSE IF "CustomerID" \notin df.cols
     THEN \* df["CustomerID"] raises KeyError at line 57
          /\ exc' = "KeyError: 'CustomerID'"
          /\ shown' = {"head", "total_sales"}
          /\ total_sales' = AmountSum(df, Idx(df))
          /\ UNCHANGED <<unique_customers, daily_sales, category_sales>>
     ELSE /\ exc' = NoExc
          /\ total_sales' = AmountSum(df, Idx(df))
          /\ unique_customers' = Cardinality(Customers(df))
          /\ daily_sales' = IF HasDate(df) THEN DailySales(df) ELSE <<>>
          /\ category_sales' =
               IF "Category" \in df.cols THEN CategorySales(df) ELSE EmptyMap
          /\ shown' = {"head", "total_sales", "unique_customers"}
                      \cup (IF HasDate(df) THEN {"daily_sales"} ELSE {})
                      \cup (IF "Category" \in df.cols
                            THEN {"category_sales"} ELSE {})
  /\ UNCHANGED <<widgets, df, alerts, rfm_out, basket_out, forecast_out>>

-----------------------------------------------------------------------------
(* Page 2: RFM Segmentation (lines 74-85).                                 *)

SnapshotDateMutant(t) == DateMax(t, Idx(t))

\* line 77
SnapshotDate(t) == AddDays(DateMax(t, Idx(t)), 1)

\* lines 78-82: one row per CustomerID
RFM(t) ==
  [c \in Customers(t) |->
     LET I == {i \in Idx(t) : t.rows[i].CustomerID = c}
     IN [Recency |-> DaysBetween(SnapshotDate(t), DateMax(t, I)),
         Frequency |-> CountNotNull(t, I, "OrderID"),
         Monetary |-> AmountSum(t, I)]]

RFMSegmentation ==
  /\ pc = "page"
  /\ page = PageRFM
  /\ pc' = "done"
  /\ IF HasDate(df)
     THEN IF {"CustomerID", "OrderID", "Amount"} \subseteq df.cols
          THEN /\ snapshot_date' = SnapshotDate(df)
               /\ rfm' = RFM(df)
               /\ shown' = {"rfm"}
               /\ exc' = NoExc
               /\ alerts' = alerts
          ELSE \* groupby("CustomerID") or agg over an absent column raises
               /\ snapshot_date' = SnapshotDate(df)
               /\ exc' = "KeyError"
               /\ UNCHANGED <<rfm, shown, alerts>>
     ELSE /\ alerts' = {WarnRFM}
          /\ exc' = NoExc
          /\ UNCHANGED <<rfm_out, shown>>
  /\ UNCHANGED <<widgets, df, overview_out, basket_out, forecast_out>>

-----------------------------------------------------------------------------
(* Page 3: Market Basket Analysis (lines 90-139).                          *)

\* exact fractions <<numerator, denominator>>, denominators positive
FracDiv(a, b) == <<a[1] * b[2], a[2] * b[1]>>
FracGeq(a, b) == a[1] * b[2] >= b[1] * a[2]
FracEq(a, b) == a[1] * b[2] = b[1] * a[2]

PresenceMutant(x) == IF x >= 0 THEN 1 ELSE 0

\* line 100: lambda x: 1 if x > 0 else 0
Presence(x) == IF x > 0 THEN 1 ELSE 0

\* lines 99-100: rows are the order ids, columns the categories, a cell the
\* thresholded sum of Amount (an absent pair is filled with 0)
Basket(t) ==
  LET I == {i \in Idx(t) : t.rows[i].OrderID # NA}
      orders == {t.rows[i].OrderID : i \in I}
      cats == {t.rows[i].Category : i \in I}
  IN [index |-> orders,
      columns |-> cats,
      cell |-> [oc \in orders \X cats |->
                  Presence(AmountSum(t, {i \in I :
                     /\ t.rows[i].OrderID = oc[1]
                     /\ t.rows[i].Category = oc[2]}))]]

\* the number of rows of the matrix that hold every column of S
SupportCount(b, S) ==
  Cardinality({o \in b.index : \A c \in S : b.cell[<<o, c>>] = 1})

MeetsSupportMutant(b, S, ms) ==
  SupportCount(b, S) * 100 > ms * Cardinality(b.index)

\* support >= min_support, min_support in hundredths
MeetsSupport(b, S, ms) == SupportCount(b, S) * 100 >= ms * Cardinality(b.index)

ItemsOf(tuple) == {CategoryOrder[tuple[i]] : i \in DOMAIN tuple}

RECURSIVE Flatten(_)
\* the concatenation of a sequence of sequences
Flatten(ss) == IF ss = <<>> THEN <<>> ELSE Head(ss) \o Flatten(Tail(ss))

\* mlxtend generate_new_combinations: every itemset of the previous level,
\* in order, extended by each item of that level greater than its last item
NewCombinations(old) ==
  LET types == SortedSeq(UNION {Range(old[i]) : i \in DOMAIN old})
  IN Flatten([i \in DOMAIN old |->
        LET last == old[i][Len(old[i])]
            ext == SelectSeq(types, LAMBDA x : x > last)
        IN [j \in DOMAIN ext |-> Append(old[i], ext[j])]])

RECURSIVE NextLevels(_, _, _)
\* the apriori while-loop: the levels after `prev`
NextLevels(b, ms, prev) ==
  LET combin == NewCombinations(prev)
      kept == SelectSeq(combin, LAMBDA tup : MeetsSupport(b, ItemsOf(tup), ms))
  IN IF combin = <<>> \/ kept = <<>> THEN <<>>
     ELSE kept \o NextLevels(b, ms, kept)

\* line 103: apriori(basket, min_support, use_colnames=True): the frequent
\* itemsets level by level, each with its support
Apriori(b, ms) ==
  LET cols == SortedSeq({Rank(c) : c \in b.columns})
      singles == [i \in DOMAIN cols |-> <<cols[i]>>]
      level1 == SelectSeq(singles, LAMBDA tup : MeetsSupport(b, ItemsOf(tup), ms))
      all == level1 \o NextLevels(b, ms, level1)
  IN [i \in DOMAIN all |->
        [itemsets |-> ItemsOf(all[i]),
         support |-> <<SupportCount(b, ItemsOf(all[i])), Cardinality(b.index)>>]]

RECURSIVE Combinations(_, _)
\* itertools.combinations(s, r), in its order
Combinations(s, r) ==
  IF r = 0 THEN << <<>> >>
  ELSE IF Len(s) < r THEN <<>>
  ELSE LET with == Combinations(Tail(s), r - 1)
       IN [i \in DOMAIN with |-> <<Head(s)>> \o with[i]]
          \o Combinations(Tail(s), r)

\* the support recorded for itemset S in the frequent itemsets
SupportOf(fi, S) == fi[CHOOSE i \in DOMAIN fi : fi[i].itemsets = S].support

\* the orders in which a run may iterate the categories of a frozenset
IterationOrders ==
  {p \in [1..Len(CategoryOrder) -> Categories] : Range(p) = Categories}

RuleMutant(fi, K, antecedent) ==
  LET sAC == SupportOf(fi, K)
      sA == SupportOf(fi, antecedent)
      confidence == FracDiv(sAC, sA)
  IN [antecedents |-> antecedent,
      consequents |-> K \ antecedent,
      support |-> sAC,
      confidence |-> confidence,
      lift |-> FracDiv(confidence, sA)]

\* the candidate rule antecedent -> K \ antecedent
Rule(fi, K, antecedent) ==
  LET sAC == SupportOf(fi, K)
      sA == SupportOf(fi, antecedent)
      sC == SupportOf(fi, K \ antecedent)
      confidence == FracDiv(sAC, sA)
  IN [antecedents |-> antecedent,
      consequents |-> K \ antecedent,
      support |-> sAC,
      confidence |-> confidence,
      lift |-> FracDiv(confidence, sC)]

\* metric="lift", min_threshold in tenths
MeetsLift(r, thr) == FracGeq(r.lift, <<thr, 10>>)

\* line 115: association_rules(frequent_items, metric="lift", min_threshold):
\* for every frequent itemset in order, for antecedent sizes from the
\* largest down to 1, for every combination of that size, keep the rule
\* when its lift reaches the threshold
AssociationRules(fi, thr, order) ==
  LET candidates(k) ==
        LET K == fi[k].itemsets
            items == SelectSeq(order, LAMBDA c : c \in K)
            n == Cardinality(K)
        IN Flatten([d \in 1..(n - 1) |->
              LET combs == Combinations(items, n - d)
              IN [j \in DOMAIN combs |-> Rule(fi, K, Range(combs[j]))]])
  IN SelectSeq(Flatten([k \in DOMAIN fi |-> candidates(k)]),
               LAMBDA r : MeetsLift(r, thr))

AddEdgesMutant(g, r) ==
  LET new == r.antecedents \X r.consequents
  IN [e \in (DOMAIN g) \cup new |-> IF e \in DOMAIN g THEN g[e] ELSE r.lift]

\* line 132: G.add_edge(antecedent, consequent, weight=row["lift"]) for the
\* pairs of one rule: an existing edge's weight is overwritten
AddEdges(g, r) ==
  LET new == r.antecedents \X r.consequents
  IN [e \in (DOMAIN g) \cup new |-> IF e \in new THEN r.lift ELSE g[e]]

RECURSIVE AddRules(_, _)
\* lines 129-132, the rules from first to last
AddRules(g, rs) ==
  IF rs = <<>> THEN g ELSE AddRules(AddEdges(g, Head(rs)), Tail(rs))

EmptyGraph == [e \in {} |-> <<0, 1>>]
BuildGraph(rs) == AddRules(EmptyGraph, rs)
Nodes(g) == {e[1] : e \in DOMAIN g} \cup {e[2] : e \in DOMAIN g}

MarketBasket ==
  /\ pc = "page"
  /\ page = PageBasket
  /\ pc' = "done"
  /\ IF {"Category", "OrderID"} \subseteq df.cols
     THEN IF "Amount" \notin df.cols
          THEN \* ["Amount"] on the groupby raises KeyError at line 99
               /\ exc' = "KeyError: 'Column not found: Amount'"
               /\ UNCHANGED <<basket_out, shown, alerts>>
          ELSE /\ exc' = NoExc
               /\ basket' = Basket(df)
               /\ frequent_items' = Apriori(basket', min_support)
               /\ IF frequent_items' = <<>>
                  THEN /\ alerts' = {WarnNoItemsets}
                       /\ shown' = shown
                       /\ UNCHANGED <<rules, G>>
                  ELSE \E order \in IterationOrders :
                       /\ rules' = AssociationRules(frequent_items',
                                                    min_threshold, order)
                       /\ IF rules' = <<>>
                          THEN /\ alerts' = {WarnNoRules}
                               /\ shown' = {"frequent_items"}
                               /\ G' = G
                          ELSE /\ alerts' = alerts
                               /\ shown' = {"frequent_items", "rules", "G"}
                               /\ G' = BuildGraph(rules')
     ELSE /\ alerts' = {WarnBasket}
          /\ exc' = NoExc
          /\ UNCHANGED <<basket_out, shown>>
  /\ UNCHANGED <<widgets, df, overview_out, rfm_out, forecast_out>>

-----------------------------------------------------------------------------
(* Page 4: Sales Forecasting (lines 144-173).                              *)

forecast_steps == 7
NoFreq == 0

\* the frequency statsmodels attaches to a DatetimeIndex that has none
\* (pandas' inferred_freq): the common gap of three or more timestamps, in
\* clock slots, and none when there are fewer or the gaps differ
InferFreq(series) ==
  IF Len(series) < 3 THEN NoFreq
  ELSE LET gap == series[2].index - series[1].index
       IN IF \A i \in 1..(Len(series) - 1) :
                series[i + 1].index - series[i].index = gap
          THEN gap ELSE NoFreq

DateLabel(d) == [kind |-> "date", at |-> d]
PosLabel(n) == [kind |-> "pos", at |-> n]

\* the model's prediction for step i, as a token; NaN is no prediction
Predicted(i) == i

\* line 154: model_fit.forecast(steps): a Series of the predictions,
\* labelled with the dates that continue the index at its frequency, or,
\* when the index has no frequency, with the integer positions nobs, ...
Forecast(series, steps) ==
  LET freq == InferFreq(series)
      last == series[Len(series)].index
  IN [i \in 1..steps |->
        [index |-> IF freq = NoFreq THEN PosLabel(Len(series) + i - 1)
                   ELSE DateLabel(last + i * freq),
         value |-> Predicted(i)]]

\* lines 160-161: pd.date_range(ts.index[-1] + timedelta(days=1),
\* periods=forecast_steps, freq="D")
ForecastIndex(series, steps) ==
  LET last == series[Len(series)].index
  IN [i \in 1..steps |-> AddDays(last, 1) + (i - 1) * SlotsPerDay]

\* what pd.Series(data, index=index) keeps of a labelled Series: the value
\* data holds under each label of index, NaN where it holds none
Reindex(data, index) ==
  [i \in DOMAIN index |->
     LET hit == {j \in DOMAIN data : data[j].index = DateLabel(index[i])}
     IN [index |-> index[i],
         value |-> IF hit = {} THEN NaN
                   ELSE data[CHOOSE j \in hit : TRUE].value]]

\* line 162
ForecastSeries(series, steps) ==
  Reindex(Forecast(series, steps), ForecastIndex(series, steps))

SalesForecasting ==
  /\ pc = "page"
  /\ page = PageForecast
  /\ pc' = "done"
  /\ IF HasDate(df)
     THEN IF "Amount" \notin df.cols
          THEN \* ["Amount"] on the groupby raises KeyError at line 148,
               \* before the try block
               /\ exc' = "KeyError: 'Column not found: Amount'"
               /\ UNCHANGED <<forecast_out, shown, alerts>>
          ELSE \* the fit is the library's: it succeeds or raises; on an
               \* empty series it raises
               \E fit_ok \in (IF DailySales(df) = <<>> THEN {FALSE} ELSE BOOLEAN) :
                  /\ exc' = NoExc
                  /\ ts' = DailySales(df)
                  /\ IF fit_ok
                     THEN /\ forecast_series' =
                               ForecastSeries(DailySales(df), forecast_steps)
                          /\ shown' = {"forecast_series"}
                          /\ alerts' = alerts
                     ELSE /\ alerts' = {ErrForecast}
                          /\ UNCHANGED <<forecast_series, shown>>
     ELSE /\ alerts' = {WarnForecast}
          /\ exc' = NoExc
          /\ UNCHANGED <<forecast_out, shown>>
  /\ UNCHANGED <<widgets, df, overview_out, rfm_out, basket_out>>

-----------------------------------------------------------------------------
(* The runs.                                                               *)

\* slider defaults, lines 95-96
DefaultSupport == 5
DefaultLift == 10

\* the state before the script runs, for given widget values
Start(file, pg, ms, thr) ==
  /\ uploaded_file = file
  /\ page = pg
  /\ min_support = ms
  /\ min_threshold = thr
  /\ pc = "load"
  /\ df = [cols |-> {}, rows |-> <<>>]
  /\ shown = {}
  /\ alerts = {}
  /\ exc = NoExc
  /\ total_sales = 0
  /\ unique_customers = 0
  /\ daily_sales = <<>>
  /\ category_sales = EmptyMap
  /\ snapshot_date = NaT
  /\ rfm = EmptyMap
  /\ basket = [index |-> {}, columns |-> {}, cell |-> EmptyMap]
  /\ frequent_items = <<>>
  /\ rules = <<>>
  /\ G = EmptyGraph
  /\ ts = <<>>
  /\ forecast_series = <<>>

RECURSIVE SeqOfSet(_)
SeqOfSet(S) ==
  IF S = {} THEN <<>>
  ELSE LET x == CHOOSE y \in S : TRUE IN <<x>> \o SeqOfSet(S \ {x})

RECURSIVE Ascending(_, _, _, _)
\* the sequences of k indices in lo..hi in ascending order, each index at
\* least `step` above the one before it
Ascending(k, lo, hi, step) ==
  IF k = 0 THEN {<<>>}
  ELSE UNION {{<<v>> \o s : s \in Ascending(k - 1, v + step, hi, step)} :
              v \in lo..hi}

\* The tables of 1..n rows drawn from R, up to the order of their rows:
\* every analysis reads the table through a groupby, which sorts by key.
Tables(R, n) ==
  LET rs == SeqOfSet(R)
  IN UNION {{[i \in 1..k |-> rs[s[i]]] : s \in Ascending(k, 1, Len(rs), 0)} :
            k \in 1..n}

\* the tables of 1..n distinct rows of R, up to row order: a repeated row
\* changes no cell of the incidence matrix
DistinctTables(R, n) ==
  LET rs == SeqOfSet(R)
  IN UNION {{[i \in 1..k |-> rs[s[i]]] : s \in Ascending(k, 1, Len(rs), 1)} :
            k \in 1..n}

DateCells(maxDay) ==
  {DateCell(d, sl - 1) : d \in 1..maxDay, sl \in DOMAIN TimeSlots}
    \cup {BadDateCell}

\* the built-in sample, on every page
SampleRuns ==
  \E pg \in Pages : Start(NoFile, pg, DefaultSupport, DefaultLift)

\* the sample table uploaded with any of its columns removed
ColumnRuns ==
  \E cols \in SUBSET Columns, pg \in Pages :
     Start(File(cols, SampleData), pg, DefaultSupport, DefaultLift)

RFMRows ==
  {SampleRow(o, d, c, a, "Electronics") :
     o \in {1, NA}, d \in DateCells(MaxDay), c \in {"C001", "C002"},
     a \in {100, 250}}

RFMRuns ==
  \E rows \in Tables(RFMRows, MaxRowsRFM) :
     Start(File(Columns, rows), PageRFM, DefaultSupport, DefaultLift)

BasketRows ==
  {SampleRow(o, DateCell(1, 0), "C001", a, k) :
     o \in 1..3, a \in {0, 100}, k \in Categories}

BasketRuns ==
  \E rows \in DistinctTables(BasketRows, MaxRowsBasket),
     ms \in {DefaultSupport, 50}, thr \in {DefaultLift, 15} :
     Start(File(Columns, rows), PageBasket, ms, thr)

\* the sample with 1..MaxDeleted of its rows deleted
SampleExcerpts ==
  UNION {{[i \in 1..(Len(SampleData) - k) |-> SampleData[keep[i]]] :
            keep \in Ascending(Len(SampleData) - k, 1, Len(SampleData), 1)} :
         k \in 1..MaxDeleted}

ForecastRuns ==
  \E rows \in SampleExcerpts :
     Start(File(Columns, rows), PageForecast, DefaultSupport, DefaultLift)

DailyRows ==
  {SampleRow(1, d, "C001", a, "Electronics") :
     d \in DateCells(MaxDay), a \in {100, 250}}

DailyRuns ==
  \E rows \in Tables(DailyRows, MaxRowsDaily),
     pg \in {PageOverview, PageForecast} :
     Start(File(Columns, rows), pg, DefaultSupport, DefaultLift)

Init == SampleRuns \/ ColumnRuns
InitRFM == SampleRuns \/ RFMRuns
InitBasket == SampleRuns \/ BasketRuns
InitForecast == SampleRuns \/ ForecastRuns
InitDaily == SampleRuns \/ DailyRuns

Next ==
  \/ LoadData
  \/ DataOverview
  \/ RFMSegmentation
  \/ MarketBasket
  \/ SalesForecasting

Spec == Init /\ [][Next]_vars
SpecRFM == InitRFM /\ [][Next]_vars
SpecBasket == InitBasket /\ [][Next]_vars
SpecForecast == InitForecast /\ [][Next]_vars
SpecDaily == InitDaily /\ [][Next]_vars

-----------------------------------------------------------------------------
(* Properties.                                                             *)

Ran(pg) == pc = "done" /\ page = pg
Dates(t) == {t.rows[i].Date : i \in Idx(t)} \ {NaT}
RowsOf(t, c) == {i \in Idx(t) : t.rows[i].CustomerID = c}

\* C1: every run ends without an uncaught exception: a failure of the
\* selected analysis (a required column missing, a failed fit) is caught
\* and shown as a warning or an error.
C1_NoUncaughtException == pc = "done" => exc = NoExc

SampleNoDate == File(Columns \ {"Date"}, SampleData)

\* C10: with the Date column removed from the sample, the RFM and the
\* Forecasting pages show their missing-Date warning and compute nothing,
\* the Data Overview still gives total sales, unique customers and sales
\* by category without the daily trend, and Basket Mining still runs.
C10_DateRemoved ==
  (pc = "done" /\ uploaded_file = SampleNoDate) =>
    /\ exc = NoExc
    /\ page = PageRFM =>
         /\ alerts = {WarnRFM} /\ shown = {}
         /\ rfm = EmptyMap /\ snapshot_date = NaT
    /\ page = PageForecast =>
         /\ alerts = {WarnForecast} /\ shown = {}
         /\ ts = <<>> /\ forecast_series = <<>>
    /\ page = PageOverview =>
         /\ shown = {"head", "total_sales", "unique_customers",
                     "category_sales"}
         /\ alerts = {}
         /\ total_sales = 2170
         /\ unique_customers = 4
         /\ DOMAIN category_sales = Categories
         /\ category_sales["Electronics"] = 1070
         /\ category_sales["Fashion"] = 450
         /\ category_sales["Home"] = 650
         /\ daily_sales = <<>>
    /\ page = PageBasket =>
         /\ "frequent_items" \in shown
         /\ WarnBasket \notin alerts
         /\ {frequent_items[i].itemsets : i \in DOMAIN frequent_items}
              = {{c} : c \in Categories}

C10_Witness ==
  /\ pc = "done" /\ uploaded_file = SampleNoDate
  /\ page = PageRFM /\ alerts = {WarnRFM}

\* C2: the RFM result has exactly one record per distinct customer_id;
\* snapshot_date is the latest date of the table plus one day; a customer's
\* recency is the whole days from their latest date to snapshot_date, their
\* frequency the count of their order ids, their monetary the sum of their
\* amounts. On the sample: snapshot 2023-01-10, C001 has 2, 3, 650.
C2_RFMRecords ==
  (Ran(PageRFM) /\ "rfm" \in shown) =>
    /\ DOMAIN rfm = {df.rows[i].CustomerID : i \in Idx(df)}
    /\ Dates(df) # {} =>
         \E d \in Dates(df) :
            /\ \A e \in Dates(df) : e <= d
            /\ snapshot_date = d + SlotsPerDay
    /\ \A c \in DOMAIN rfm :
         /\ \A i \in RowsOf(df, c) :
              (/\ df.rows[i].Date # NaT
               /\ \A j \in RowsOf(df, c) : df.rows[j].Date <= df.rows[i].Date)
              => /\ rfm[c].Recency * SlotsPerDay
                      <= snapshot_date - df.rows[i].Date
                 /\ snapshot_date - df.rows[i].Date
                      < (rfm[c].Recency + 1) * SlotsPerDay
         /\ rfm[c].Frequency
              = Cardinality({i \in RowsOf(df, c) : df.rows[i].OrderID # NA})
         /\ rfm[c].Monetary
              = SumSet(RowsOf(df, c),
                       [i \in RowsOf(df, c) |-> df.rows[i].Amount])
    /\ uploaded_file = NoFile =>
         /\ snapshot_date = 10 * SlotsPerDay
         /\ rfm["C001"] = [Recency |-> 2, Frequency |-> 3, Monetary |-> 650]

C2_Witness ==
  /\ Ran(PageRFM) /\ "rfm" \in shown /\ uploaded_file.present
  /\ \E c \in DOMAIN rfm : \E i, j \in RowsOf(df, c) :
        /\ df.rows[i].Date # NaT /\ df.rows[j].Date # NaT
        /\ df.rows[i].Date < df.rows[j].Date
        /\ df.rows[i].Amount # df.rows[j].Amount
        /\ rfm[c].Recency >= 1

\* C3: for every table with a Date column, also when some or all of its
\* dates are the missing-date marker, every customer of the RFM result has
\* a defined recency >= 0 and a frequency >= 1.
C3_RecencyDefined ==
  (Ran(PageRFM) /\ "rfm" \in shown) =>
    \A c \in DOMAIN rfm :
       /\ rfm[c].Recency # NaN
       /\ rfm[c].Recency >= 0
       /\ rfm[c].Frequency >= 1

BasketRan ==
  /\ Ran(PageBasket) /\ exc = NoExc
  /\ {"Category", "OrderID"} \subseteq df.cols

HasRow(o, c) ==
  \E i \in Idx(df) : df.rows[i].OrderID = o /\ df.rows[i].Category = c
HasSpend(o, c) ==
  \E i \in Idx(df) : /\ df.rows[i].OrderID = o /\ df.rows[i].Category = c
                     /\ df.rows[i].Amount > 0

MatrixShape ==
  /\ basket.index = {df.rows[i].OrderID : i \in Idx(df)}
  /\ basket.columns = {df.rows[i].Category : i \in Idx(df)}
  /\ DOMAIN basket.cell = basket.index \X basket.columns
  /\ \A oc \in DOMAIN basket.cell : basket.cell[oc] \in {0, 1}

\* C4 as stated: a cell of the incidence matrix is 1 exactly when the order
\* has at least one transaction in the category, an amount of 0 included.
C4_CellIffTransaction ==
  BasketRan =>
    /\ MatrixShape
    /\ \A oc \in DOMAIN basket.cell :
         basket.cell[oc] = 1 <=> HasRow(oc[1], oc[2])

\* C4 as amended: a cell of the incidence matrix is 1 exactly when the order
\* has at least one transaction with a positive amount in the category, and
\* 0 otherwise; every cell is 0 or 1.
C4_CellIffPositiveSpend ==
  BasketRan =>
    /\ MatrixShape
    /\ \A oc \in DOMAIN basket.cell :
         basket.cell[oc] = 1 <=> HasSpend(oc[1], oc[2])

C4_Witness ==
  /\ BasketRan
  /\ \E oc \in DOMAIN basket.cell :
        HasRow(oc[1], oc[2]) /\ basket.cell[oc] = 0
  /\ \E oc \in DOMAIN basket.cell : basket.cell[oc] = 1

\* the number of orders of the matrix that hold every category of S
Holding(S) ==
  Cardinality({o \in basket.index : \A c \in S : basket.cell[<<o, c>>] = 1})
Orders == Cardinality(basket.index)
Reaches(S) == Holding(S) * 100 >= min_support * Orders
FrequentSets == {S \in (SUBSET basket.columns) \ {{}} : Reaches(S)}
Mined == {frequent_items[i].itemsets : i \in DOMAIN frequent_items}

\* C5: the frequent itemsets are exactly the non-empty category sets whose
\* support (the fraction of orders holding all of the set) is >=
\* min_support; when min_support exceeds every single category's support
\* the result is empty, the empty-itemset warning is shown, and neither the
\* rules nor the graph are computed.
C5_FrequentItemsetsExact ==
  BasketRan =>
    /\ Mined = FrequentSets
    /\ Len(frequent_items) = Cardinality(FrequentSets)
    /\ \A i \in DOMAIN frequent_items :
         frequent_items[i].support
           = <<Holding(frequent_items[i].itemsets), Orders>>
    /\ (\A c \in basket.columns : ~Reaches({c})) =>
         /\ frequent_items = <<>>
         /\ alerts = {WarnNoItemsets}
         /\ shown \cap {"frequent_items", "rules", "G"} = {}
         /\ rules = <<>>
         /\ G = EmptyGraph

C5_Witness ==
  /\ BasketRan /\ uploaded_file.present
  /\ frequent_items = <<>>
  /\ WarnNoItemsets \in alerts
  /\ \E oc \in DOMAIN basket.cell : basket.cell[oc] = 1

\* the lift of A -> C from the matrix: support(A u C) / (support(A) support(C))
LiftOf(A, C) == <<Holding(A \cup C) * Orders, Holding(A) * Holding(C)>>
Floor == <<min_threshold, 10>>
Candidates ==
  {AC \in (SUBSET basket.columns) \X (SUBSET basket.columns) :
     /\ AC[1] # {} /\ AC[2] # {} /\ AC[1] \cap AC[2] = {}
     /\ AC[1] \cup AC[2] \in Mined}

\* C6: every rule returned has a non-empty antecedent and a non-empty
\* consequent, disjoint, whose union is a frequent itemset; its confidence
\* is support(A u C) / support(A), its lift confidence / support(C), and
\* its lift is >= min_lift_threshold; when no candidate rule reaches the
\* threshold the empty-rules warning is shown and no graph is built.
C6_RulesSound ==
  BasketRan =>
    /\ \A i \in DOMAIN rules :
         LET A == rules[i].antecedents
             C == rules[i].consequents
         IN /\ <<A, C>> \in Candidates
            /\ Holding(A) > 0 /\ Holding(C) > 0
            /\ FracEq(rules[i].confidence, <<Holding(A \cup C), Holding(A)>>)
            /\ FracEq(rules[i].lift,
                      FracDiv(rules[i].confidence, <<Holding(C), Orders>>))
            /\ FracEq(rules[i].lift, LiftOf(A, C))
            /\ FracGeq(rules[i].lift, Floor)
    /\ (frequent_items # <<>>
        /\ \A AC \in Candidates : ~FracGeq(LiftOf(AC[1], AC[2]), Floor)) =>
         /\ rules = <<>>
         /\ alerts = {WarnNoRules}
         /\ "G" \notin shown
         /\ G = EmptyGraph

C6_Witness ==
  /\ BasketRan /\ min_threshold > DefaultLift
  /\ \E i \in DOMAIN rules : Cardinality(rules[i].antecedents) = 2
  /\ \E AC \in Candidates : ~FracGeq(LiftOf(AC[1], AC[2]), Floor)

Pairs(i) == rules[i].antecedents \X rules[i].consequents

\* C7: the edges of the graph are exactly the pairs (a, c), a in the
\* antecedent and c in the consequent of some returned rule; an edge's
\* weight is the lift of the last such rule in the rules' order; no weight
\* is below the lift threshold and every node is an item of a returned rule.
C7_GraphFromRules ==
  (BasketRan /\ "G" \in shown) =>
    /\ DOMAIN G = UNION {Pairs(i) : i \in DOMAIN rules}
    /\ \A e \in DOMAIN G :
         \E i \in DOMAIN rules :
            /\ e \in Pairs(i)
            /\ \A j \in DOMAIN rules : j > i => e \notin Pairs(j)
            /\ G[e] = rules[i].lift
    /\ \A e \in DOMAIN G : FracGeq(G[e], Floor)
    /\ Nodes(G) \subseteq
         UNION {rules[i].antecedents \cup rules[i].consequents :
                  i \in DOMAIN rules}

C7_Witness ==
  /\ BasketRan /\ "G" \in shown
  /\ \E i, j \in DOMAIN rules :
        /\ i < j
        /\ Pairs(i) \cap Pairs(j) # {}
        /\ ~FracEq(rules[i].lift, rules[j].lift)

\* C8: whenever the fit succeeds, the forecast shown has exactly 7 points,
\* dated with the 7 consecutive days after the last observed date, and each
\* point carries the model's prediction for its step (none is missing).
C8_ForecastSevenPoints ==
  (Ran(PageForecast) /\ "forecast_series" \in shown) =>
    /\ Len(forecast_series) = forecast_steps
    /\ \A i \in DOMAIN forecast_series :
         /\ forecast_series[i].index = ts[Len(ts)].index + i * SlotsPerDay
         /\ forecast_series[i].value # NaN
         /\ forecast_series[i].value = Predicted(i)

DaySeries == IF page = PageOverview THEN daily_sales ELSE ts
DaysTraded == {DayOf(d) : d \in Dates(df)}

\* C9: daily_sales (the Data Overview's trend and the forecaster's input)
\* has exactly one entry per calendar day on which a transaction occurred,
\* in ascending order, whose value is the sum of that day's amounts.
C9_OneEntryPerDay ==
  (pc = "done" /\ exc = NoExc /\ HasDate(df)
     /\ page \in {PageOverview, PageForecast}) =>
    /\ Len(DaySeries) = Cardinality(DaysTraded)
    /\ \A k \in DOMAIN DaySeries :
         /\ DayOf(DaySeries[k].index) \in DaysTraded
         /\ k > 1 => DayOf(DaySeries[k - 1].index) < DayOf(DaySeries[k].index)
         /\ LET I == {i \in Idx(df) : /\ df.rows[i].Date # NaT
                                      /\ DayOf(df.rows[i].Date)
                                           = DayOf(DaySeries[k].index)}
            IN DaySeries[k].value
                 = SumSet(I, [i \in I |-> df.rows[i].Amount])

=============================================================================
